---- MODULE Spec2Model ----
(***************************************************************************)
(* Model of scripts/check_coverage.py: the OpenAPI loader (parse_openapi), *)
(* the Rust service scanner (scan_services), the endpoint matcher          *)
(* (match_endpoint) and the report / threshold gate of main.               *)
(*                                                                         *)
(* Strings are sequences of one-character strings, so that splitting,      *)
(* escaping, substitution and regular-expression matching are computed     *)
(* character by character, as the Python code computes them.               *)
(***************************************************************************)
EXTENDS Integers, Sequences, FiniteSets, TLC

VARIABLES
    pc,               \* position of the run inside main (or of a direct call)
    spec_exists,      \* OPENAPI_PATH.exists()
    services_is_dir,  \* SERVICES_DIR.is_dir()
    doc,              \* what json.load finds in the specification file
    threshold_env,    \* os.environ.get("COVERAGE_THRESHOLD"), or Unset
    endpoints,        \* main: endpoints
    implemented,      \* main: implemented
    active,           \* main: active
    deprecated,       \* main: deprecated
    covered,          \* main: covered
    missing,          \* main: missing
    pct,              \* main: pct, as the exact fraction [num, den]
    stdout,           \* lines printed to standard output
    stderr,           \* lines printed to standard error
    exit_status,      \* <<status>> once the process has exited, NoExit before
    ep_path,          \* argument of a direct match_endpoint call
    matched,          \* its return value, NoResult before the call returns
    rs_file           \* scan_services: the file of the current loop iteration

vars == <<pc, spec_exists, services_is_dir, doc, threshold_env,
          endpoints, implemented, active, deprecated, covered, missing, pct,
          stdout, stderr, exit_status, ep_path, matched, rs_file>>

inputVars == <<spec_exists, services_is_dir, doc, threshold_env>>
callVars == <<ep_path, matched, rs_file>>

Unset == [set |-> FALSE, value |-> <<>>]
NoExit == <<>>
NoResult == "<none>"
NoOcc == [form |-> "none", text |-> <<>>]
NoFile == [idx |-> 0, name |-> "", phase |-> "none", n |-> 0, m |-> NoOcc]

\* ------------------------------------------------------------------------
\* Bounds of the model
\* ------------------------------------------------------------------------

\* segments below the /v1 root in a generated path
MaxSegs == 2
\* members of the implemented set handed to a direct match_endpoint call
MaxImpl == 2
\* path-bearing places in one scanned file
MaxOccs == 2
\* path entries in a specification document
MaxPaths == 2

\* ------------------------------------------------------------------------
\* Strings
\* ------------------------------------------------------------------------

\* str.startswith
StartsWith(s, prefix) ==
    /\ Len(s) >= Len(prefix)
    /\ SubSeq(s, 1, Len(prefix)) = prefix

\* s[i:], 1-based
Tail_from(s, i) == SubSeq(s, i, Len(s))

\* does the string hold the character
Contains(s, c) == \E i \in 1..Len(s) : s[i] = c

\* index of the first occurrence of c in s at or after i, 0 when there is none
RECURSIVE Find(_, _, _)
Find(s, c, i) ==
    IF i > Len(s) THEN 0
    ELSE IF s[i] = c THEN i
    ELSE Find(s, c, i + 1)

\* raw.split("?")[0]: the part before the first "?"
SplitFirst(s, c) ==
    LET i == Find(s, c, 1)
    IN  IF i = 0 THEN s ELSE SubSeq(s, 1, i - 1)

\* str.replace(old, new), leftmost non-overlapping occurrences
RECURSIVE str_replace(_, _, _)
str_replace(s, old, new) ==
    IF s = <<>> THEN <<>>
    ELSE IF StartsWith(s, old)
         THEN new \o str_replace(Tail_from(s, Len(old) + 1), old, new)
         ELSE <<s[1]>> \o str_replace(Tail_from(s, 2), old, new)

\* ------------------------------------------------------------------------
\* Regular expressions, as far as match_endpoint uses them
\* ------------------------------------------------------------------------

\* the characters re.escape puts a backslash before (Python 3.7 and later)
SpecialChars ==
    {"(", ")", "[", "]", "{", "}", "?", "*", "+", "-", "|", "^", "$",
     "\\", ".", "&", "~", "#", " ", "\t", "\n", "\r"}

\* re.escape(s)
RECURSIVE re_escape(_)
re_escape(s) ==
    IF s = <<>> THEN <<>>
    ELSE (IF s[1] \in SpecialChars THEN <<"\\", s[1]>> ELSE <<s[1]>>)
         \o re_escape(Tail_from(s, 2))

\* the replacement text r"{[^}]+}" of the substitution in match_endpoint
WildcardText == <<"{", "[", "^", "}", "]", "+", "}">>

\* a substitution whose wildcard accepts any run of characters other than "/"
RECURSIVE re_sub_any_segment(_)
re_sub_any_segment(s) ==
    IF s = <<>> THEN <<>>
    ELSE LET close == Find(s, "}", 2)
         IN  IF s[1] = "\\" /\ Len(s) >= 2 /\ s[2] = "{" /\ close >= 4
             THEN <<"[", "^", "/", "]", "+">>
                  \o re_sub_any_segment(Tail_from(s, close + 1))
             ELSE <<s[1]>> \o re_sub_any_segment(Tail_from(s, 2))

\* re.sub(r"\{[^}]+\}", r"{[^}]+}", s): every leftmost, non-overlapping run
\* "{", one or more characters other than "}", "}" becomes WildcardText
RECURSIVE re_sub_placeholder(_)
re_sub_placeholder(s) ==
    IF s = <<>> THEN <<>>
    ELSE LET close == Find(s, "}", 2)
         IN  IF s[1] = "{" /\ close >= 3
             THEN WildcardText \o re_sub_placeholder(Tail_from(s, close + 1))
             ELSE <<s[1]>> \o re_sub_placeholder(Tail_from(s, 2))

\* re.compile: the pattern text as a sequence of tokens.  A backslash makes
\* the next character literal; "[^c]+" is one or more characters other than
\* c; "^" and "$" are the anchors; any other character stands for itself.
RECURSIVE re_compile(_)
re_compile(p) ==
    IF p = <<>> THEN <<>>
    ELSE IF p[1] = "\\" /\ Len(p) >= 2
         THEN <<[kind |-> "lit", ch |-> p[2]]>> \o re_compile(Tail_from(p, 3))
    ELSE IF Len(p) >= 5 /\ p[1] = "[" /\ p[2] = "^" /\ p[4] = "]" /\ p[5] = "+"
         THEN <<[kind |-> "not_plus", ch |-> p[3]]>> \o re_compile(Tail_from(p, 6))
    ELSE IF p[1] = "^"
         THEN <<[kind |-> "bol", ch |-> ""]>> \o re_compile(Tail_from(p, 2))
    ELSE IF p[1] = "$"
         THEN <<[kind |-> "eol", ch |-> ""]>> \o re_compile(Tail_from(p, 2))
    ELSE <<[kind |-> "lit", ch |-> p[1]]>> \o re_compile(Tail_from(p, 2))

\* does the token sequence, from token i on, match s from position j on
RECURSIVE MatchFrom(_, _, _, _)
MatchFrom(regex, i, s, j) ==
    IF i > Len(regex) THEN TRUE
    ELSE LET t == regex[i]
         IN  CASE t.kind = "bol" ->
                    j = 1 /\ MatchFrom(regex, i + 1, s, j)
               [] t.kind = "eol" ->
                    /\ \/ j = Len(s) + 1
                       \/ j = Len(s) /\ s[j] = "\n"
                    /\ MatchFrom(regex, i + 1, s, j)
               [] t.kind = "lit" ->
                    /\ j <= Len(s)
                    /\ s[j] = t.ch
                    /\ MatchFrom(regex, i + 1, s, j + 1)
               [] t.kind = "not_plus" ->
                    \E k \in j..Len(s) :
                        /\ \A m \in j..k : s[m] # t.ch
                        /\ MatchFrom(regex, i + 1, s, k + 1)

\* regex.match(p): a match starting at the beginning of p
re_match(regex, p) == MatchFrom(regex, 1, p, 1)

\* ------------------------------------------------------------------------
\* Normalisation and matching
\* ------------------------------------------------------------------------

\* a normalisation that keeps the query string
normalise_path_keep_query(raw) == raw

\* normalise_path: strips the query parameters
normalise_path(raw) == SplitFirst(raw, "?")

\* a normalisation that rewrites {name} placeholders as :name
normalise_openapi_path_colon(path) ==
    str_replace(str_replace(path, <<"{">>, <<":">>), <<"}">>, <<>>)

\* normalise_openapi_path: returns its argument
normalise_openapi_path(path) == path

\* match_endpoint: exact membership first, then the regular expression
\* built from the escaped template
match_endpoint(path, impl) ==
    LET normalised == normalise_openapi_path(path)
    IN  IF normalised \in impl THEN TRUE
        ELSE LET substituted == re_sub_placeholder(re_escape(normalised))
                 guardText == <<"\\">> \o SubSeq(WildcardText, 1, 6) \o <<"\\", "}">>
                 pattern == str_replace(substituted, guardText, guardText)
                 regex == re_compile(<<"^">> \o pattern \o <<"$">>)
             IN  \E p \in impl : re_match(regex, p)

\* ------------------------------------------------------------------------
\* Paths the model draws its inputs from
\* ------------------------------------------------------------------------

Root == <<"/", "v", "1">>
Query == <<"?", "p", "=", "2">>

\* a literal segment with a character re.escape escapes, and two
\* placeholders that differ in name only
SegPool ==
    { <<"a", "-", "b">>, <<"{", "x", "}">>, <<"{", "i", "d", "}">> }

\* /v1 followed by exactly n segments of SegPool
RECURSIVE PathsOfDepth(_)
PathsOfDepth(n) ==
    IF n = 0 THEN {Root}
    ELSE {p \o <<"/">> \o seg : p \in PathsOfDepth(n - 1), seg \in SegPool}

\* a path whose placeholder has no name, as a positional format! argument;
\* a path with a "/" between its braces; a path with a line break after it
ExtraPaths ==
    { Root \o <<"/", "{", "}">>,
      Root \o <<"/", "{", "a", "/", "b", "}">>,
      Root \o <<"/", "a", "-", "b", "\n">> }

PoolPaths == UNION {PathsOfDepth(n) : n \in 1..MaxSegs} \cup ExtraPaths

\* descriptor templates: the pool, and its one-segment paths with a query
\* string
Templates == PoolPaths \cup {p \o Query : p \in PathsOfDepth(1)}

\* the subsets of S with at most n members
RECURSIVE SubsetsUpTo(_, _)
SubsetsUpTo(S, n) ==
    IF n = 0 THEN {{}}
    ELSE LET smaller == SubsetsUpTo(S, n - 1)
         IN  smaller \cup {T \cup {x} : T \in smaller, x \in S}

\* ------------------------------------------------------------------------
\* Path shape, segment by segment (used to state the matching claims)
\* ------------------------------------------------------------------------

\* s.split("/") as a sequence of segments
RECURSIVE Segments(_)
Segments(s) ==
    LET i == Find(s, "/", 1)
    IN  IF i = 0 THEN <<s>>
        ELSE <<SubSeq(s, 1, i - 1)>> \o Segments(Tail_from(s, i + 1))

\* a segment of the form {name} with a non-empty name free of braces
IsPlaceholder(seg) ==
    /\ Len(seg) >= 3
    /\ seg[1] = "{"
    /\ seg[Len(seg)] = "}"
    /\ \A i \in 2..(Len(seg) - 1) : seg[i] \notin {"{", "}"}

\* a segment with a concrete value: non-empty, no brace anywhere
IsLiteral(seg) ==
    /\ Len(seg) >= 1
    /\ \A i \in 1..Len(seg) : seg[i] \notin {"{", "}"}

HasPlaceholder(path) ==
    \E i \in 1..Len(Segments(path)) : IsPlaceholder(Segments(path)[i])

\* cand is tmpl with, at most, other names in its placeholders
RenamedOnly(tmpl, cand) ==
    LET ts == Segments(tmpl)
        cs == Segments(cand)
    IN  /\ Len(ts) = Len(cs)
        /\ \A i \in 1..Len(ts) :
               IF IsPlaceholder(ts[i]) THEN IsPlaceholder(cs[i]) ELSE ts[i] = cs[i]

\* cand is tmpl except at placeholder positions, and at one of them at least
\* cand holds a concrete value
LiteralAtPlaceholder(tmpl, cand) ==
    LET ts == Segments(tmpl)
        cs == Segments(cand)
    IN  /\ Len(ts) = Len(cs)
        /\ \A i \in 1..Len(ts) :
               IF IsPlaceholder(ts[i])
               THEN IsPlaceholder(cs[i]) \/ IsLiteral(cs[i])
               ELSE ts[i] = cs[i]
        /\ \E i \in 1..Len(ts) : IsPlaceholder(ts[i]) /\ IsLiteral(cs[i])

\* ------------------------------------------------------------------------
\* A direct call of match_endpoint
\* ------------------------------------------------------------------------

\* the values the variables of main have while main is not running
IdleRun ==
    /\ spec_exists = TRUE
    /\ services_is_dir = TRUE
    /\ doc = [kind |-> "object", has_paths |-> FALSE, paths |-> <<>>]
    /\ threshold_env = Unset
    /\ endpoints = <<>>
    /\ active = <<>>
    /\ deprecated = <<>>
    /\ covered = <<>>
    /\ missing = <<>>
    /\ pct = [num |-> 0, den |-> 1]
    /\ stdout = <<>>
    /\ stderr = <<>>
    /\ exit_status = NoExit

InitMatch ==
    /\ IdleRun
    /\ rs_file = NoFile
    /\ pc = "match_call"
    /\ ep_path \in Templates
    /\ implemented \in SubsetsUpTo(PoolPaths, MaxImpl)
    /\ matched = NoResult

MatchEndpointCall ==
    /\ pc = "match_call"
    /\ matched' = match_endpoint(ep_path, implemented)
    /\ pc' = "match_ret"
    /\ UNCHANGED <<inputVars, endpoints, implemented, active, deprecated,
                   covered, missing, pct, stdout, stderr, exit_status, ep_path,
                   rs_file>>

NextMatch == MatchEndpointCall

SpecMatch == InitMatch /\ [][NextMatch]_vars

\* C1: after match_endpoint returns, the descriptor is covered whenever the
\* implemented set holds a path that differs from the template in placeholder
\* names only, and it is not covered when the single member of the set has a
\* concrete value at one of the template's placeholder positions.
PlaceholderNameAgnostic ==
    pc = "match_ret" =>
        /\ (\E c \in implemented : RenamedOnly(ep_path, c)) => matched = TRUE
        /\ \A c \in implemented :
               (implemented = {c} /\ LiteralAtPlaceholder(ep_path, c))
                   => matched = FALSE

\* C1, witness: a returned call whose template has a placeholder and whose
\* implemented set holds the template under other placeholder names only
PlaceholderCasesReached ==
    /\ pc = "match_ret"
    /\ ep_path \notin implemented
    /\ \E c \in implemented : RenamedOnly(ep_path, c)
    /\ HasPlaceholder(ep_path)
    /\ matched = TRUE

\* C6, as stated: a template whose query-stripped form is a member of the
\* implemented set is covered.
QueryStrippedTemplateCovered ==
    (pc = "match_ret" /\ normalise_path(ep_path) \in implemented)
        => matched = TRUE

\* C6, amended: a template that is itself, as written, a member of the
\* implemented set is covered (no query stripping is applied to templates).
ExactMemberCovered ==
    (pc = "match_ret" /\ ep_path \in implemented) => matched = TRUE

\* C6, witness: a returned call whose template is a member of the set
ExactMemberReached ==
    /\ pc = "match_ret"
    /\ ep_path \in implemented
    /\ HasPlaceholder(ep_path)
    /\ matched = TRUE

\* a segment written between braces
IsBraced(seg) ==
    /\ Len(seg) >= 2
    /\ seg[1] = "{"
    /\ seg[Len(seg)] = "}"

\* cand has as many segments as tmpl, a non-empty segment wherever tmpl has
\* a braced one, and the segment of tmpl everywhere else
SameSegments(tmpl, cand) ==
    LET ts == Segments(tmpl)
        cs == Segments(cand)
    IN  /\ Len(ts) = Len(cs)
        /\ \A i \in 1..Len(ts) :
               IF IsBraced(ts[i]) THEN cs[i] # <<>> ELSE ts[i] = cs[i]

\* C11, as stated: when match_endpoint judges a descriptor covered, some
\* member of the implemented set has the segment count of the template,
\* equals it on every segment that is no placeholder, and has nothing
\* before or after.
MatchWithinSegments ==
    (pc = "match_ret" /\ matched = TRUE) =>
        \E c \in implemented : SameSegments(ep_path, c)

\* ------------------------------------------------------------------------
\* The specification document (the value json.load returns)
\* ------------------------------------------------------------------------

\* JSON values of the fields parse_openapi reads
JAbsent == [t |-> "absent", b |-> FALSE, s |-> ""]
JNull == [t |-> "null", b |-> FALSE, s |-> ""]
JBool(b) == [t |-> "bool", b |-> b, s |-> ""]
JStr(s) == [t |-> "str", b |-> FALSE, s |-> s]

\* dict.get(key, default) on a field that may be absent
dict_get(v, default) == IF v.t = "absent" THEN default ELSE v

\* bool(v)
py_bool(v) ==
    CASE v.t = "bool" -> v.b
      [] v.t = "str" -> v.s # ""
      [] OTHER -> FALSE

\* an operation value: a JSON object with its two fields, or another value
JObject(operationId, dep) ==
    [is_dict |-> TRUE, operationId |-> operationId, deprecated |-> dep]
JNotObject == [is_dict |-> FALSE, operationId |-> JAbsent, deprecated |-> JAbsent]

UpperLetters ==
    <<"A", "B", "C", "D", "E", "F", "G", "H", "I", "J", "K", "L", "M",
      "N", "O", "P", "Q", "R", "S", "T", "U", "V", "W", "X", "Y", "Z">>
LowerLetters ==
    <<"a", "b", "c", "d", "e", "f", "g", "h", "i", "j", "k", "l", "m",
      "n", "o", "p", "q", "r", "s", "t", "u", "v", "w", "x", "y", "z">>

\* str.lower and str.upper
str_lower(s) ==
    [i \in 1..Len(s) |->
        IF \E k \in 1..26 : UpperLetters[k] = s[i]
        THEN LowerLetters[CHOOSE k \in 1..26 : UpperLetters[k] = s[i]]
        ELSE s[i]]
str_upper(s) ==
    [i \in 1..Len(s) |->
        IF \E k \in 1..26 : LowerLetters[k] = s[i]
        THEN UpperLetters[CHOOSE k \in 1..26 : LowerLetters[k] = s[i]]
        ELSE s[i]]

\* HTTP_METHODS
HTTP_METHODS ==
    { <<"g", "e", "t">>, <<"p", "o", "s", "t">>, <<"p", "u", "t">>,
      <<"p", "a", "t", "c", "h">>, <<"d", "e", "l", "e", "t", "e">>,
      <<"h", "e", "a", "d">>, <<"o", "p", "t", "i", "o", "n", "s">> }

\* a verb test that compares the key as written
is_http_method_exact(method) == method \in HTTP_METHODS

\* the test of parse_openapi: method.lower() in HTTP_METHODS
is_http_method(method) == str_lower(method) \in HTTP_METHODS

\* the inner loop of parse_openapi: the descriptors of one path entry
RECURSIVE parse_methods(_, _)
parse_methods(path, methods) ==
    IF methods = <<>> THEN <<>>
    ELSE LET method == methods[1].key
             detail == methods[1].detail
             rest == parse_methods(path, Tail(methods))
         IN  IF ~is_http_method(method) THEN rest
             ELSE IF ~detail.is_dict THEN rest
             ELSE <<[method |-> str_upper(method),
                     path |-> path,
                     operation_id |-> dict_get(detail.operationId, JStr("")),
                     deprecated |->
                         py_bool(dict_get(detail.deprecated, JBool(FALSE)))]>>
                  \o rest

\* the outer loop of parse_openapi over spec.get("paths", {}).items()
RECURSIVE parse_paths(_)
parse_paths(paths) ==
    IF paths = <<>> THEN <<>>
    ELSE parse_methods(paths[1].path, paths[1].methods)
         \o parse_paths(Tail(paths))

\* a loader that takes a document it cannot read for an empty one
parse_raises_lenient(d) ==
    \E i \in 1..Len(d.paths) : ~d.paths[i].is_mapping

\* does parse_openapi raise: json.load on a malformed document, .get on a
\* document that is no object, .items() on a path value that is no mapping
parse_raises(d) ==
    \/ d.kind # "object"
    \/ \E i \in 1..Len(d.paths) : ~d.paths[i].is_mapping

\* parse_openapi on a document it does not raise on; spec.get("paths", {})
parse_openapi(d) == parse_paths(IF d.has_paths THEN d.paths ELSE <<>>)

\* ------------------------------------------------------------------------
\* The scanner
\* ------------------------------------------------------------------------

Digits == {"0", "1", "2", "3", "4", "5", "6", "7", "8", "9"}

\* the text begins with /v, one or more digits, and /  (regex /v\d+/)
HasVersionPrefix(s) ==
    /\ StartsWith(s, <<"/", "v">>)
    /\ \E k \in 3..Len(s) :
           /\ \A i \in 3..k : s[i] \in Digits
           /\ k + 1 <= Len(s)
           /\ s[k + 1] = "/"

\* A file is a name and the places of its text that hold a path, in order.
\* A place is the text between the quotes (or backquotes) and the form of
\* the code around it:
\*   "call"     .get("...") and the other verb-named calls of PATH_PATTERN
\*   "format"   format!("...")
\*   "let_path" let path = "..."  /  let mut path = "..."
\*   "bare"     "..." in any other position
\*   "doc"      `GET ...`, `POST ...`, ... in a comment
Occ(form, text) == [form |-> form, text |-> text]

\* the guard of scan_services: raw and raw.startswith("/v")
passes_guard(raw) == raw # <<>> /\ StartsWith(raw, <<"/", "v">>)

\* PATH_PATTERN on one place: the set holding the captured group, if any.
\* Groups 1 to 3 capture [^"]+ ; group 4 captures /v1/[^"]* .
path_pattern_capture(occ) ==
    CASE occ.form \in {"call", "format", "let_path"} ->
            IF occ.text # <<>> THEN {occ.text} ELSE {}
      [] occ.form = "bare" ->
            IF StartsWith(occ.text, <<"/", "v", "1", "/">>) THEN {occ.text} ELSE {}
      [] OTHER -> {}

\* DOC_PATH_PATTERN on one place: group 1 is /v\d+/[^`]+
doc_pattern_capture(occ) ==
    IF /\ occ.form = "doc"
       /\ HasVersionPrefix(occ.text)
       /\ \E k \in 3..Len(occ.text) :
              /\ \A i \in 3..k : occ.text[i] \in Digits
              /\ occ.text[k + 1] = "/"
              /\ k + 2 <= Len(occ.text)
    THEN {occ.text} ELSE {}

\* the raw strings of a file that the two loops of scan_services add
accepted_raws(occs) ==
    UNION { {raw \in path_pattern_capture(occs[i]) : passes_guard(raw)}
            \cup {raw \in doc_pattern_capture(occs[i]) : raw # <<>>}
            : i \in 1..Len(occs) }

\* one iteration of the loop of scan_services over sorted(glob("*.rs"))
scan_file(file) ==
    IF file.name = "mod.rs" THEN {}
    ELSE {normalise_path(raw) : raw \in accepted_raws(file.occs)}

\* scan_services on a directory, given as its *.rs files in sorted order
scan_services(dir) == UNION {scan_file(dir[i]) : i \in 1..Len(dir)}

\* the *.rs file names of the model, in sorted order
FileNames == <<"agents.rs", "mod.rs", "voices.rs">>

\* the places the scanned files are made of
OccPool ==
    { Occ("call", Root \o <<"/", "a", "-", "b">>),
      Occ("call", Root \o <<"/", "a", "-", "b">> \o Query),
      Occ("call", <<"/", "v", "e", "r", "s", "i", "o", "n">>),
      Occ("call", <<"/", "h", "e", "a", "l", "t", "h">>),
      Occ("format", Root \o <<"/", "{", "x", "}">>),
      Occ("format", <<"{", "}", "/", "v", "1", "/", "a", "-", "b">>),
      Occ("let_path", Root \o <<"/", "{", "i", "d", "}">> \o Query),
      Occ("let_path", <<"/", "v", "o", "i", "c", "e", "s", "/", "{", "i", "d", "}">>),
      Occ("bare", Root \o <<"/", "a", "-", "b">>),
      Occ("bare", <<"/", "d", "o", "c", "s">>),
      Occ("doc", <<"/", "v", "2", "/", "{", "i", "d", "}">> \o Query),
      Occ("doc", <<"/", "v", "x", "/", "a">>) }

\* the sequences over S of length n at most
RECURSIVE SeqsUpTo(_, _)
SeqsUpTo(S, n) ==
    IF n = 0 THEN {<<>>}
    ELSE LET shorter == SeqsUpTo(S, n - 1)
         IN  shorter \cup {Append(q, x) : q \in shorter, x \in S}

\* a call of scan_services, one loop iteration per step.  rs_file holds the
\* file of the outer loop, the loop that is running over its text (phase),
\* the number of places that loop has passed (n) and the last of them (m).
InitScan ==
    /\ IdleRun
    /\ pc = "scan_loop"
    /\ rs_file = NoFile
    /\ implemented = {}
    /\ ep_path = <<>>
    /\ matched = NoResult

scanFrame ==
    <<inputVars, endpoints, active, deprecated, covered, missing, pct,
      stdout, stderr, exit_status, ep_path, matched>>

\* for rs_file in sorted(glob("*.rs")): mod.rs is passed over, any other
\* file is read
NextFile ==
    /\ pc = "scan_loop"
    /\ \E i \in 1..Len(FileNames) :
           /\ i > rs_file.idx
           /\ rs_file' = [idx |-> i, name |-> FileNames[i],
                          phase |-> IF FileNames[i] = "mod.rs"
                                    THEN "skipped" ELSE "code",
                          n |-> 0, m |-> NoOcc]
           /\ pc' = IF FileNames[i] = "mod.rs" THEN "scan_loop" ELSE "scan_file"
    /\ UNCHANGED <<scanFrame, implemented>>

\* for m in PATH_PATTERN.finditer(content): the loop passes one more place
CodeMatch ==
    /\ pc = "scan_file"
    /\ rs_file.phase = "code"
    /\ rs_file.n < MaxOccs
    /\ \E occ \in {o \in OccPool : o.form # "doc"} :
           /\ rs_file' = [rs_file EXCEPT !.n = @ + 1, !.m = occ]
           /\ implemented' = implemented \cup
                  {normalise_path(raw) :
                      raw \in {r \in path_pattern_capture(occ) : passes_guard(r)}}
    /\ UNCHANGED <<scanFrame, pc>>

\* the first loop ends, the loop over DOC_PATH_PATTERN begins
CodeDone ==
    /\ pc = "scan_file"
    /\ rs_file.phase = "code"
    /\ rs_file' = [rs_file EXCEPT !.phase = "doc", !.n = 0, !.m = NoOcc]
    /\ UNCHANGED <<scanFrame, pc, implemented>>

\* for m in DOC_PATH_PATTERN.finditer(content)
DocMatch ==
    /\ pc = "scan_file"
    /\ rs_file.phase = "doc"
    /\ rs_file.n < MaxOccs
    /\ \E occ \in {o \in OccPool : o.form = "doc"} :
           /\ rs_file' = [rs_file EXCEPT !.n = @ + 1, !.m = occ]
           /\ implemented' = implemented \cup
                  {normalise_path(raw) :
                      raw \in {r \in doc_pattern_capture(occ) : r # <<>>}}
    /\ UNCHANGED <<scanFrame, pc>>

\* the second loop ends: on to the next file
DocDone ==
    /\ pc = "scan_file"
    /\ rs_file.phase = "doc"
    /\ rs_file' = [rs_file EXCEPT !.phase = "done", !.m = NoOcc]
    /\ pc' = "scan_loop"
    /\ UNCHANGED <<scanFrame, implemented>>

\* the listing is exhausted: return implemented
ScanReturn ==
    /\ pc = "scan_loop"
    /\ pc' = "scan_ret"
    /\ UNCHANGED <<scanFrame, implemented, rs_file>>

NextScan ==
    NextFile \/ CodeMatch \/ CodeDone \/ DocMatch \/ DocDone \/ ScanReturn

SpecScan == InitScan /\ [][NextScan]_vars

\* C7, as stated: every member of the implemented set begins with a
\* versioned API root prefix, so no placeholder-free literal without such a
\* prefix is ever a member.
ImplementedHasVersionPrefix ==
    \A p \in implemented : HasVersionPrefix(p)

\* the part of raw before its first "?", stated without computing it: the
\* prefix of raw free of "?" that is all of raw or is followed by "?"
QueryFreeOf(raw) ==
    CHOOSE p \in {SubSeq(raw, 1, k) : k \in 0..Len(raw)} :
        /\ ~Contains(p, "?")
        /\ Len(p) = Len(raw) \/ raw[Len(p) + 1] = "?"

\* C8: no member of the implemented set holds a "?"; the path extracted at
\* the place the scanner has just passed is in the set as its part before
\* the first "?"; and a descriptor that this query-free path covers is
\* covered by the set.
QueryStringsStripped ==
    /\ \A p \in implemented : ~Contains(p, "?")
    /\ \A raw \in accepted_raws(<<rs_file.m>>) :
           /\ QueryFreeOf(raw) \in implemented
           /\ \A t \in PoolPaths :
                  match_endpoint(t, {QueryFreeOf(raw)})
                      => match_endpoint(t, implemented)

\* C8, witness: the scanner has passed a path with a query string, and the
\* path without it is what the set holds
QueryStringScanned ==
    /\ pc = "scan_file"
    /\ \E raw \in accepted_raws(<<rs_file.m>>) :
           /\ Contains(raw, "?")
           /\ QueryFreeOf(raw) \in implemented
           /\ raw \notin implemented

\* ------------------------------------------------------------------------
\* Inputs of a run of main
\* ------------------------------------------------------------------------

K_get == <<"g", "e", "t">>
K_post == <<"p", "o", "s", "t">>
K_delete == <<"d", "e", "l", "e", "t", "e">>
K_GET == <<"G", "E", "T">>
K_parameters == <<"p", "a", "r", "a", "m", "e", "t", "e", "r", "s">>

Entry(key, detail) == [key |-> key, detail |-> detail]

\* the per-path mappings the documents are made of: verbs in lower and upper
\* case, a path-level "parameters" key, values that are no objects, and the
\* values "deprecated" may hold
MethodMaps ==
    { <<>>,
      <<Entry(K_get, JObject(JAbsent, JAbsent))>>,
      <<Entry(K_get, JObject(JStr("getThing"), JBool(TRUE)))>>,
      <<Entry(K_parameters, JNotObject),
        Entry(K_post, JObject(JAbsent, JBool(TRUE))),
        Entry(K_get, JObject(JStr("getThing"), JBool(FALSE)))>>,
      <<Entry(K_GET, JObject(JStr("getThing"), JAbsent))>>,
      <<Entry(K_get, JNotObject)>>,
      <<Entry(K_parameters, JObject(JAbsent, JAbsent))>>,
      <<Entry(K_delete, JObject(JNull, JStr("no"))),
        Entry(K_post, JObject(JAbsent, JNull))>> }

DocsPath == <<"/", "d", "o", "c", "s">>

\* the path templates of the documents
DocPaths ==
    { DocsPath, Root \o <<"/", "a", "-", "b">>, Root \o <<"/", "{", "x", "}">> }

PathEntries ==
    {[path |-> p, is_mapping |-> TRUE, methods |-> m] :
        p \in DocPaths, m \in MethodMaps}

\* the keys of a JSON object are distinct
DistinctPaths(paths) ==
    \A i, j \in 1..Len(paths) : i # j => paths[i].path # paths[j].path

Malformed == [kind |-> "malformed", has_paths |-> FALSE, paths |-> <<>>]
TopLevelArray == [kind |-> "array", has_paths |-> FALSE, paths |-> <<>>]

\* what json.load may find: text that is no JSON, a top-level array, an
\* object without "paths", an object whose "paths" holds a value that is no
\* mapping, and objects with up to MaxPaths path entries
Docs ==
    {Malformed, TopLevelArray,
     [kind |-> "object", has_paths |-> FALSE, paths |-> <<>>],
     [kind |-> "object", has_paths |-> TRUE,
      paths |-> <<[path |-> DocsPath, is_mapping |-> FALSE, methods |-> <<>>]>>]}
    \cup {[kind |-> "object", has_paths |-> TRUE, paths |-> ps] :
             ps \in {q \in SeqsUpTo(PathEntries, MaxPaths) : DistinctPaths(q)}}

\* the places the service files of a run are made of
RunOccPool ==
    { Occ("call", Root \o <<"/", "a", "-", "b">> \o Query),
      Occ("format", Root \o <<"/", "{", "i", "d", "}">>),
      Occ("call", <<"/", "v", "e", "r", "s", "i", "o", "n">>),
      Occ("bare", DocsPath) }

\* the services directories of a run: empty, one file, or mod.rs beside a
\* service file
Dirs ==
    {<<>>}
    \cup {<<[name |-> nm, occs |-> o]>> :
             nm \in {"mod.rs", "voices.rs"}, o \in SeqsUpTo(RunOccPool, MaxOccs)}
    \cup {<<[name |-> "mod.rs",
             occs |-> <<Occ("bare", Root \o <<"/", "a", "-", "b">>)>>],
            [name |-> "voices.rs",
             occs |-> <<Occ("doc", Root \o <<"/", "{", "i", "d", "}">>)>>]>>}

\* the values of COVERAGE_THRESHOLD
ThresholdEnvs ==
    {Unset} \cup
    {[set |-> TRUE, value |-> v] :
        v \in { <<"0">>, <<"5", "0">>, <<"1", "0", "0">>, <<"3", "3", ".", "4">>,
                <<"5", "0", ".", "0">>, <<"n", "a", "n">>, <<"i", "n", "f">>,
                <<"a", "b", "c">>, <<>> }}

\* os.environ.get("COVERAGE_THRESHOLD", "0")
environ_get(env, default) == IF env.set THEN env.value ELSE default

\* ------------------------------------------------------------------------
\* Numbers
\* ------------------------------------------------------------------------

DigitSeq == <<"0", "1", "2", "3", "4", "5", "6", "7", "8", "9">>
DigitValue(c) == (CHOOSE k \in 1..10 : DigitSeq[k] = c) - 1

\* the value of a run of decimal digits
RECURSIVE DigitsValue(_)
DigitsValue(s) ==
    IF s = <<>> THEN 0
    ELSE DigitsValue(SubSeq(s, 1, Len(s) - 1)) * 10 + DigitValue(s[Len(s)])

RECURSIVE Pow10(_)
Pow10(n) == IF n = 0 THEN 1 ELSE 10 * Pow10(n - 1)

FloatError == [kind |-> "error", num |-> 0, den |-> 1]

\* float(s) for the texts of the model: "nan", "inf", and decimal numbers
\* digits[.digits]; any other text raises ValueError.  A number is kept as
\* the exact fraction num/den.
py_float(s) ==
    IF s = <<"n", "a", "n">> THEN [kind |-> "nan", num |-> 0, den |-> 1]
    ELSE IF s = <<"i", "n", "f">> THEN [kind |-> "inf", num |-> 0, den |-> 1]
    ELSE LET dot == Find(s, ".", 1)
             whole == IF dot = 0 THEN s ELSE SubSeq(s, 1, dot - 1)
             frac == IF dot = 0 THEN <<>> ELSE Tail_from(s, dot + 1)
         IN  IF /\ Len(whole) + Len(frac) >= 1
                /\ \A i \in 1..Len(whole) : whole[i] \in Digits
                /\ \A i \in 1..Len(frac) : frac[i] \in Digits
             THEN [kind |-> "num",
                   num |-> DigitsValue(whole) * Pow10(Len(frac)) + DigitsValue(frac),
                   den |-> Pow10(Len(frac))]
             ELSE FloatError

\* a comparison that also fails a run whose percentage equals the threshold
pct_below_inclusive(p, threshold) ==
    CASE threshold.kind = "nan" -> FALSE
      [] threshold.kind = "inf" -> TRUE
      [] OTHER -> p.num * threshold.den <= threshold.num * p.den

\* pct < threshold
pct_below(p, threshold) ==
    CASE threshold.kind = "nan" -> FALSE
      [] threshold.kind = "inf" -> TRUE
      [] OTHER -> p.num * threshold.den < threshold.num * p.den

\* f"{pct:.1f}": the percentage in tenths, rounded to nearest, ties to even
fmt_1f(p) ==
    LET q == (p.num * 10) \div p.den
        r == (p.num * 10) % p.den
    IN  IF 2 * r > p.den THEN q + 1
        ELSE IF 2 * r = p.den THEN q + (q % 2)
        ELSE q

\* ------------------------------------------------------------------------
\* main
\* ------------------------------------------------------------------------

EXCLUDED_PATHS == {DocsPath}

\* an active list that keeps the deprecated endpoints
select_active_keep_deprecated(eps) ==
    SelectSeq(eps, LAMBDA ep : ep.path \notin EXCLUDED_PATHS)

\* an active list that keeps the excluded paths
select_active_keep_excluded(eps) ==
    SelectSeq(eps, LAMBDA ep : ~ep.deprecated)

\* active: the endpoints that are not deprecated, without the excluded paths
select_active(eps) ==
    SelectSeq(SelectSeq(eps, LAMBDA ep : ~ep.deprecated),
              LAMBDA ep : ep.path \notin EXCLUDED_PATHS)

\* deprecated: the endpoints that are deprecated
select_deprecated(eps) == SelectSeq(eps, LAMBDA ep : ep.deprecated)

\* pct = (covered_count / total_active * 100) if total_active else 0
compute_pct(covered_count, total_active) ==
    IF total_active # 0
    THEN [num |-> covered_count * 100, den |-> total_active]
    ELSE [num |-> 0, den |-> 1]

Line(text, args) == [text |-> text, args |-> args]

\* the lines printed for the endpoints of a section
RECURSIVE endpoint_lines(_)
endpoint_lines(eps) ==
    IF eps = <<>> THEN <<>>
    ELSE <<Line("endpoint", <<eps[1].method, eps[1].path>>)>>
         \o (IF py_bool(eps[1].operation_id)
             THEN <<Line("operationId", <<eps[1].operation_id>>)>>
             ELSE <<>>)
         \o endpoint_lines(Tail(eps))

\* a section of the report: nothing when the list is empty
section_lines(title, eps) ==
    IF eps = <<>> THEN <<>>
    ELSE <<Line("-", <<>>), Line(title, <<>>), Line("-", <<>>)>>
         \o endpoint_lines(eps) \o <<Line("", <<>>)>>

\* the report, from the header to the missing endpoints
report_lines(eps, act, dep, cov, mis, p) ==
    <<Line("=", <<>>),
      Line("ElevenLabs SDK - Endpoint Coverage Report", <<>>),
      Line("=", <<>>),
      Line("", <<>>),
      Line("OpenAPI spec:", <<>>),
      Line("Services dir:", <<>>),
      Line("", <<>>),
      Line("Total endpoints:", <<Len(eps)>>),
      Line("Active:", <<Len(act)>>),
      Line("Deprecated:", <<Len(dep)>>),
      Line("", <<>>),
      Line("Covered:", <<Len(cov), Len(act), fmt_1f(p)>>),
      Line("Missing:", <<Len(mis)>>),
      Line("", <<>>)>>
    \o section_lines("Deprecated (excluded from coverage):", dep)
    \o section_lines("Missing endpoints:", mis)

Init ==
    /\ pc = "check_spec"
    /\ spec_exists = TRUE
    /\ services_is_dir = TRUE
    /\ doc = [kind |-> "object", has_paths |-> FALSE, paths |-> <<>>]
    /\ threshold_env = Unset
    /\ endpoints = <<>>
    /\ implemented = {}
    /\ active = <<>>
    /\ deprecated = <<>>
    /\ covered = <<>>
    /\ missing = <<>>
    /\ pct = [num |-> 0, den |-> 1]
    /\ stdout = <<>>
    /\ stderr = <<>>
    /\ exit_status = NoExit
    /\ ep_path = <<>>
    /\ matched = NoResult
    /\ rs_file = NoFile

\* if not OPENAPI_PATH.exists(): print the error, sys.exit(1)
CheckSpecExists ==
    /\ pc = "check_spec"
    /\ \E e \in BOOLEAN :
           /\ spec_exists' = e
           /\ IF e
              THEN /\ pc' = "check_dir"
                   /\ UNCHANGED <<stderr, exit_status>>
              ELSE /\ stderr' = Append(stderr, Line("ERROR: OpenAPI spec not found", <<>>))
                   /\ exit_status' = <<1>>
                   /\ pc' = "exit"
    /\ UNCHANGED <<services_is_dir, doc, threshold_env, endpoints,
                   implemented, active, deprecated, covered, missing, pct,
                   stdout, callVars>>

\* if not SERVICES_DIR.is_dir(): print the error, sys.exit(1)
CheckServicesDir ==
    /\ pc = "check_dir"
    /\ \E e \in BOOLEAN :
           /\ services_is_dir' = e
           /\ IF e
              THEN /\ pc' = "parse"
                   /\ UNCHANGED <<stderr, exit_status>>
              ELSE /\ stderr' = Append(stderr,
                                       Line("ERROR: Services directory not found", <<>>))
                   /\ exit_status' = <<1>>
                   /\ pc' = "exit"
    /\ UNCHANGED <<spec_exists, doc, threshold_env, endpoints,
                   implemented, active, deprecated, covered, missing, pct,
                   stdout, callVars>>

\* endpoints = parse_openapi(OPENAPI_PATH); an exception it raises is not
\* caught: the traceback goes to standard error and the status is 1
ParseOpenapi ==
    /\ pc = "parse"
    /\ \E d \in Docs :
           /\ doc' = d
           /\ IF parse_raises(d)
              THEN /\ stderr' = Append(stderr, Line("Traceback", <<d.kind>>))
                   /\ exit_status' = <<1>>
                   /\ pc' = "exit"
                   /\ UNCHANGED endpoints
              ELSE /\ endpoints' = parse_openapi(d)
                   /\ pc' = "scan"
                   /\ UNCHANGED <<stderr, exit_status>>
    /\ UNCHANGED <<spec_exists, services_is_dir, threshold_env,
                   implemented, active, deprecated, covered, missing, pct,
                   stdout, callVars>>

\* implemented = scan_services(SERVICES_DIR)
ScanServices ==
    /\ pc = "scan"
    /\ \E dir \in Dirs :
           implemented' = scan_services(dir)
    /\ pc' = "classify"
    /\ UNCHANGED <<spec_exists, services_is_dir, doc, threshold_env, endpoints,
                   active, deprecated, covered, missing, pct, stdout, stderr,
                   exit_status, callVars>>

\* active, deprecated, covered, missing and pct
Classify ==
    /\ pc = "classify"
    /\ LET act == select_active(endpoints)
           cov == SelectSeq(act, LAMBDA ep : match_endpoint(ep.path, implemented))
           mis == SelectSeq(act, LAMBDA ep : ~match_endpoint(ep.path, implemented))
       IN  /\ active' = act
           /\ deprecated' = select_deprecated(endpoints)
           /\ covered' = cov
           /\ missing' = mis
           /\ pct' = compute_pct(Len(cov), Len(act))
    /\ pc' = "report"
    /\ UNCHANGED <<inputVars, endpoints, implemented, stdout, stderr,
                   exit_status, callVars>>

\* the print calls of the report
PrintReport ==
    /\ pc = "report"
    /\ stdout' = stdout \o report_lines(endpoints, active, deprecated,
                                        covered, missing, pct)
    /\ pc' = "gate"
    /\ UNCHANGED <<inputVars, endpoints, implemented, active, deprecated,
                   covered, missing, pct, stderr, exit_status, callVars>>

\* threshold = float(os.environ.get("COVERAGE_THRESHOLD", "0")); the
\* ValueError of float is not caught; if pct < threshold: FAIL, sys.exit(1);
\* otherwise print("Done.") and the script ends with status 0
ThresholdGate ==
    /\ pc = "gate"
    /\ \E env \in ThresholdEnvs :
           /\ threshold_env' = env
           /\ LET threshold == py_float(environ_get(env, <<"0">>))
              IN  IF threshold.kind = "error"
                  THEN /\ stderr' = Append(stderr, Line("Traceback", <<"ValueError">>))
                       /\ exit_status' = <<1>>
                       /\ UNCHANGED stdout
                  ELSE IF pct_below(pct, threshold)
                  THEN /\ stderr' = Append(stderr, Line("FAIL: Coverage", <<fmt_1f(pct)>>))
                       /\ exit_status' = <<1>>
                       /\ UNCHANGED stdout
                  ELSE /\ stdout' = Append(stdout, Line("Done.", <<>>))
                       /\ exit_status' = <<0>>
                       /\ UNCHANGED stderr
    /\ pc' = "exit"
    /\ UNCHANGED <<spec_exists, services_is_dir, doc, endpoints,
                   implemented, active, deprecated, covered, missing, pct,
                   callVars>>

Next ==
    \/ CheckSpecExists
    \/ CheckServicesDir
    \/ ParseOpenapi
    \/ ScanServices
    \/ Classify
    \/ PrintReport
    \/ ThresholdGate

Spec == Init /\ [][Next]_vars

\* ------------------------------------------------------------------------
\* Properties of a run of main
\* ------------------------------------------------------------------------

\* the run has computed active, covered, missing and pct
Classified == pc \in {"report", "gate"} \/ (pc = "exit" /\ stdout # <<>>)

\* the positions of the endpoints that are neither deprecated nor excluded
ActivePositions ==
    {i \in 1..Len(endpoints) :
        ~endpoints[i].deprecated /\ endpoints[i].path # DocsPath}

\* those of them whose path the implemented set covers
CoveredPositions ==
    {i \in ActivePositions : match_endpoint(endpoints[i].path, implemented)}

\* C2: the percentage is covered_count / active_count x 100, and 0 when
\* active_count is 0; active holds exactly the endpoints that are neither
\* deprecated nor excluded and covered those of them that match, so that a
\* deprecated endpoint, implemented or not, is in neither count; the report
\* shows these counts and the percentage to one decimal.
CoverageAggregation ==
    Classified =>
        /\ Len(active) = Cardinality(ActivePositions)
        /\ Len(covered) = Cardinality(CoveredPositions)
        /\ \A i \in 1..Len(active) : ~active[i].deprecated
        /\ \A i \in 1..Len(covered) :
               /\ ~covered[i].deprecated
               /\ \E j \in 1..Len(active) : active[j] = covered[i]
        /\ Len(active) = 0 => pct.num = 0
        /\ Len(active) > 0 =>
               pct.num * Len(active) = 100 * Len(covered) * pct.den
        /\ pc # "report" =>
               \E k \in 1..Len(stdout) :
                   /\ stdout[k].text = "Covered:"
                   /\ stdout[k].args[1] = Len(covered)
                   /\ stdout[k].args[2] = Len(active)
                   /\ LET tenths == stdout[k].args[3]
                      IN  /\ Len(active) = 0 => tenths = 0
                          /\ Len(active) > 0 =>
                                 /\ 2 * (1000 * Len(covered) - tenths * Len(active))
                                        <= Len(active)
                                 /\ 2 * (tenths * Len(active) - 1000 * Len(covered))
                                        <= Len(active)

\* C2, witness: a report over a deprecated endpoint that is implemented,
\* with some active endpoints covered and some missing
DeprecatedImplementedReported ==
    /\ pc = "gate"
    /\ \E i \in 1..Len(deprecated) :
           match_endpoint(deprecated[i].path, implemented)
    /\ Len(covered) > 0
    /\ Len(missing) > 0

\* the inputs of the run have loaded
InputsLoaded == spec_exists /\ services_is_dir /\ ~parse_raises(doc)

\* the threshold setting read by the run is a number (or is not set)
ThresholdValue == py_float(environ_get(threshold_env, <<"0">>))

\* covered_count / active_count x 100 is strictly below the number th
StrictlyBelow(th) ==
    IF Len(active) = 0 THEN 0 < th.num
    ELSE 100 * Len(covered) * th.den < th.num * Len(active)

FatalErrorsBeforeReport ==
    (pc = "exit" /\ (~spec_exists \/ ~services_is_dir \/ doc.kind = "malformed")) =>
        /\ exit_status # NoExit
        /\ exit_status # <<0>>
        /\ stdout = <<>>

\* C4, witness: the run has ended on a malformed document
MalformedDocumentAborted ==
    /\ pc = "exit"
    /\ doc.kind = "malformed"
    /\ exit_status = <<1>>
    /\ stderr # <<>>

\* C5, as stated: a run that has ended with a status other than 0 after
\* printing the report has a numeric threshold and a percentage strictly
\* below it; any other failure leaves standard output empty.
FailureAfterReportIsPolicy ==
    (pc = "exit" /\ exit_status # <<0>> /\ stdout # <<>>) =>
        /\ ThresholdValue.kind \in {"num", "inf"}
        /\ pct_below(pct, ThresholdValue)

\* C9: no endpoint with the excluded path /docs is in active, covered or
\* missing, deprecated or not, and active_count counts none of them.
ExcludedPathNeverClassified ==
    /\ \A i \in 1..Len(active) : active[i].path # DocsPath
    /\ \A i \in 1..Len(covered) : covered[i].path # DocsPath
    /\ \A i \in 1..Len(missing) : missing[i].path # DocsPath
    /\ Classified =>
           /\ Len(active) = Cardinality(ActivePositions)
           /\ Len(covered) + Len(missing) = Len(active)

\* C9, witness: a classified run whose document has /docs both as an active
\* and as a deprecated endpoint, beside other active endpoints
ExcludedPathInDocument ==
    /\ pc = "gate"
    /\ \E i, j \in 1..Len(endpoints) :
           /\ endpoints[i].path = DocsPath /\ ~endpoints[i].deprecated
           /\ endpoints[j].path = DocsPath /\ endpoints[j].deprecated
    /\ Len(active) > 0

\* the (path, key, value) entries of a document, in document order
RECURSIVE EntriesOf(_)
EntriesOf(paths) ==
    IF paths = <<>> THEN <<>>
    ELSE [i \in 1..Len(paths[1].methods) |->
             [path |-> paths[1].path,
              key |-> paths[1].methods[i].key,
              detail |-> paths[1].methods[i].detail]]
         \o EntriesOf(Tail(paths))

\* the key names one of the seven verbs, in whatever letter case
IsVerbKey(key) ==
    \E verb \in HTTP_METHODS :
        /\ Len(verb) = Len(key)
        /\ \A i \in 1..Len(key) : str_lower(<<key[i]>>) = <<verb[i]>>

\* the descriptor the claim gives an entry
DescriptorOf(e) ==
    [method |-> str_upper(e.key),
     path |-> e.path,
     operation_id |->
         IF e.detail.operationId = JAbsent THEN JStr("") ELSE e.detail.operationId,
     deprecated |->
         IF e.detail.deprecated = JAbsent THEN FALSE ELSE py_bool(e.detail.deprecated)]

ExpectedDescriptors(d) ==
    LET qualifying ==
            SelectSeq(EntriesOf(d.paths),
                      LAMBDA e : IsVerbKey(e.key) /\ e.detail.is_dict)
    IN  [i \in 1..Len(qualifying) |-> DescriptorOf(qualifying[i])]

\* C10: once parse_openapi has returned, endpoints holds, in document order,
\* exactly one descriptor for each entry whose key names one of the seven
\* verbs and whose value is an object, with the method in upper case,
\* operation_id "" and deprecated false when the fields are absent; entries
\* under any other key, or with a value that is no object, yield nothing.
LoaderFiltering ==
    (pc \notin {"check_spec", "check_dir", "parse"} /\ InputsLoaded) =>
        endpoints = ExpectedDescriptors(doc)

\* C10, witness: a parsed document with a "parameters" key, a value that is
\* no object and two operations under one path, in their order
LoaderSkippedNonVerb ==
    /\ pc = "scan"
    /\ \E i \in 1..Len(doc.paths) :
           /\ Len(doc.paths[i].methods) = 3
           /\ doc.paths[i].methods[1].key = K_parameters
    /\ Len(endpoints) >= 2
    /\ endpoints[1].method = <<"P", "O", "S", "T">>
    /\ endpoints[2].method = <<"G", "E", "T">>

====
